---------------------------- MODULE Spec2Model ----------------------------
(***************************************************************************)
(* A model of familytreemaker.py: the record parser (Person.__init__),     *)
(* the family registry (Family.add_person, Family.add_household), the      *)
(* ingestion loop (Family.populate), the ancestor selection of main(), the *)
(* generation walk (Family.next_generation) and the DOT emitter            *)
(* (Family.display_generation, Family.output_descending_tree).             *)
(*                                                                         *)
(* Python strings are sequences of one-character strings.  Python objects  *)
(* that the program compares by identity are modelled by their position:   *)
(* a Person is its index in `everybody` (insertion order of the dict), a   *)
(* Household is its index in `heap` (allocation order).                    *)
(***************************************************************************)
EXTENDS Integers, Sequences, FiniteSets, TLC

VARIABLES
    pc,         \* where main() is: "populate", "main", "output", "walk", "done", "raised"
    exc,        \* the exception that ended the run ("" while none)
    alphabet,   \* the lines the input file is drawn from (fixed at start)
    limit,      \* the number of lines the input file may have (fixed at start)
    consumed,   \* the lines f.readline() has returned so far, in order
    added,      \* the calls of add_person so far: the id and attr of the Person
                \* built from the record (line 144), and the Person returned
    everybody,  \* Family.everybody: the persons in insertion order
    heap,       \* every Household object allocated so far
    households, \* Family.households: references into heap
    h,          \* populate's local h: reference into heap
    ancestor,   \* main's local ancestor: index into everybody, 0 for None
    gen,        \* output_descending_tree's local gen
    gens,       \* the generations display_generation was called with, in order
    out         \* what has been printed on stdout, one record per printed line

vars == <<pc, exc, alphabet, limit, consumed, added, everybody, heap, households, h,
          ancestor, gen, gens, out>>

----------------------------------------------------------------------------
(* Bounds of the model.                                                    *)

\* lines of an input file drawn from RecordLines
MaxLines == 3
\* lines of an input file drawn from SpouseLines
MaxSpouseLines == 8
\* lines of an input file drawn from FamilyLines
MaxFamilyLines == 5
\* lines of an input file drawn from KidsLines
MaxKidsLines == 8
\* how many of the values of random.randint(100, 999) are drawn
RandChoices == 2

(* Program constants.                                                      *)
RandLo == 100
RandHi == 999
\* the number of parents add_household insists on (line 159)
ParentsPerHousehold == 2
\* the number of households display_generation can draw (line 269)
MaxSpouses == 2

----------------------------------------------------------------------------
(* Python values: None, True and strings.                                  *)

PyNone == [t |-> "none", s |-> <<>>]
PyTrue == [t |-> "bool", s |-> <<>>]
PyStr(s) == [t |-> "str", s |-> s]

\* bool(v)
Truthy(v) == v.t = "bool" \/ (v.t = "str" /\ v.s # <<>>)

\* str(v), what '%s' % v prints
Str(v) == IF v.t = "str" THEN v.s
          ELSE IF v.t = "bool" THEN <<"T", "r", "u", "e">>
          ELSE <<"N", "o", "n", "e">>

Digit(d) == CASE d = 0 -> "0" [] d = 1 -> "1" [] d = 2 -> "2" [] d = 3 -> "3"
              [] d = 4 -> "4" [] d = 5 -> "5" [] d = 6 -> "6" [] d = 7 -> "7"
              [] d = 8 -> "8" [] d = 9 -> "9"

\* '%d' % n and str(n), n >= 0
RECURSIVE Dec(_)
Dec(n) == IF n < 10 THEN <<Digit(n)>> ELSE Dec(n \div 10) \o <<Digit(n % 10)>>

Whitespace == {" ", "\t", "\n", "\r"}

Alnum == {"0", "1", "2", "3", "4", "5", "6", "7", "8", "9",
          "A", "B", "C", "D", "E", "F", "G", "H", "I", "J", "K", "L", "M",
          "N", "O", "P", "Q", "R", "S", "T", "U", "V", "W", "X", "Y", "Z",
          "a", "b", "c", "d", "e", "f", "g", "h", "i", "j", "k", "l", "m",
          "n", "o", "p", "q", "r", "s", "t", "u", "v", "w", "x", "y", "z"}

\* c in s
Contains(s, c) == \E i \in 1..Len(s) : s[i] = c

\* s.rstrip()
RECURSIVE RStrip(_)
RStrip(s) == IF s # <<>> /\ s[Len(s)] \in Whitespace
             THEN RStrip(SubSeq(s, 1, Len(s) - 1)) ELSE s

RECURSIVE LStrip(_)
LStrip(s) == IF s # <<>> /\ s[1] \in Whitespace THEN LStrip(Tail(s)) ELSE s

\* s.strip()
Strip(s) == LStrip(RStrip(s))

\* s.split(c): the parts of s between the occurrences of c
RECURSIVE SplitAcc(_, _, _)
SplitAcc(s, c, cur) ==
    IF s = <<>> THEN <<cur>>
    ELSE IF s[1] = c THEN <<cur>> \o SplitAcc(Tail(s), c, <<>>)
    ELSE SplitAcc(Tail(s), c, Append(cur, s[1]))

Split(s, c) == SplitAcc(s, c, <<>>)

\* re.sub('[^0-9A-Za-z]', '', s)
RECURSIVE StripNonAlnum(_)
StripNonAlnum(s) ==
    IF s = <<>> THEN <<>>
    ELSE IF s[1] \in Alnum THEN <<s[1]>> \o StripNonAlnum(Tail(s))
    ELSE StripNonAlnum(Tail(s))

----------------------------------------------------------------------------
(* Python dicts with string keys, as sequences of items in insertion order. *)

DictHas(d, k) == \E i \in 1..Len(d) : d[i].k = k

DictGet(d, k) == d[CHOOSE i \in 1..Len(d) : d[i].k = k].v

\* d[k] = v
DictSet(d, k, v) ==
    IF DictHas(d, k)
    THEN [i \in 1..Len(d) |-> IF d[i].k = k THEN [k |-> k, v |-> v] ELSE d[i]]
    ELSE Append(d, [k |-> k, v |-> v])

\* a d.update(e) that keeps the value of a key d already has
RECURSIVE DictUpdateKeepOld(_, _)
DictUpdateKeepOld(d, e) ==
    IF e = <<>> THEN d
    ELSE DictUpdateKeepOld(IF DictHas(d, e[1].k) THEN d ELSE DictSet(d, e[1].k, e[1].v),
                           Tail(e))

\* d.update(e)
RECURSIVE DictUpdate(_, _)
DictUpdate(d, e) ==
    IF e = <<>> THEN d
    ELSE DictUpdate(DictSet(d, e[1].k, e[1].v), Tail(e))

DictKeys(d) == {d[i].k : i \in 1..Len(d)}

----------------------------------------------------------------------------
(* Person.__init__                                                         *)

K_id == <<"i", "d">>
K_unique == <<"u", "n", "i", "q", "u", "e">>

\* whether desc has the parenthesized attribute list (line 56)
HasAttrList(desc) == Contains(desc, "(") /\ Contains(desc, ")")

\* desc[0:-1].split('(') (line 57)
NameAndAttr(desc) == Split(SubSeq(desc, 1, Len(desc) - 1), "(")

\* map(strip, attr.split(',')) (line 59)
AttrTokens(desc) ==
    LET toks == Split(NameAndAttr(desc)[2], ",")
    IN  [i \in 1..Len(toks) |-> Strip(toks[i])]

\* the unpackings of lines 57 and 62 succeed (no ValueError)
ParseOK(string) ==
    LET desc == Strip(string)
    IN  HasAttrList(desc) =>
          /\ Len(NameAndAttr(desc)) = 2
          /\ \A i \in 1..Len(AttrTokens(desc)) :
                Contains(AttrTokens(desc)[i], "=")
                    => Len(Split(AttrTokens(desc)[i], "=")) = 2

\* the loop of lines 60-65
RECURSIVE AttrOfTokens(_, _)
AttrOfTokens(toks, d) ==
    IF toks = <<>> THEN d
    ELSE LET a == toks[1]
         IN  IF Contains(a, "=")
             THEN AttrOfTokens(Tail(toks),
                      DictSet(d, Split(a, "=")[1], PyStr(Split(a, "=")[2])))
             ELSE AttrOfTokens(Tail(toks), DictSet(d, a, PyTrue))

PersonName(string) ==
    LET desc == Strip(string)
    IN  IF HasAttrList(desc) THEN Strip(NameAndAttr(desc)[1]) ELSE desc

PersonAttr(string) ==
    LET desc == Strip(string)
    IN  IF HasAttrList(desc) THEN AttrOfTokens(AttrTokens(desc), <<>>) ELSE <<>>

\* whether random.randint is called (line 73)
DrawsRandom(string) ==
    /\ ~DictHas(PersonAttr(string), K_id)
    /\ DictHas(PersonAttr(string), K_unique)

\* lines 69-74; r is the value of random.randint(100, 999)
PersonId(string, r) ==
    LET attr == PersonAttr(string)
    IN  IF DictHas(attr, K_id) THEN DictGet(attr, K_id)
        ELSE IF DictHas(attr, K_unique)
             THEN PyStr(StripNonAlnum(PersonName(string)) \o Dec(r))
             ELSE PyStr(StripNonAlnum(PersonName(string)))

\* Person(string), for a string with ParseOK
Person(string, r) ==
    [id |-> PersonId(string, r), name |-> PersonName(string),
     attr |-> PersonAttr(string), parents |-> 0, households |-> <<>>,
     follow_kids |-> TRUE]

\* the values random.randint(100, 999) is drawn from
RandomValues == {r \in RandLo..RandHi : r < RandLo + RandChoices}

----------------------------------------------------------------------------
(* The printed lines.  A record per print call: k names the print          *)
(* statement, ns holds the node names of the line as printed; g (the       *)
(* number of the generation), w (the position of the person in the         *)
(* generation) and hh (the household) say what the line was printed for.   *)

Line(k, ns, g, w, hh) == [k |-> k, ns |-> ns, g |-> g, w |-> w, hh |-> hh]

----------------------------------------------------------------------------
(* Household                                                               *)

\* Household()
NewHousehold == [parents |-> <<>>, kids |-> <<>>, id |-> 0]

\* Household.isempty
IsEmpty(hh) == Len(hh.parents) = 0 /\ Len(hh.kids) = 0

----------------------------------------------------------------------------
(* Family.add_person, Family.add_household                                 *)

\* key in self.everybody
HasKey(eb, key) == \E i \in 1..Len(eb) : eb[i].id = key

\* the Person self.everybody[key]
Lookup(eb, key) == CHOOSE i \in 1..Len(eb) : eb[i].id = key

\* an add_person that registers a new Person whatever the key
AddPersonAlwaysNew(eb, string, r) == Append(eb, Person(string, r))

\* self.everybody after add_person(string)
AddPerson(eb, string, r) ==
    LET p == Person(string, r)
    IN  IF HasKey(eb, p.id)
        THEN [eb EXCEPT ![Lookup(eb, p.id)].attr = DictUpdate(@, p.attr)]
        ELSE Append(eb, p)

\* the Person add_person(string) returns
AddedPerson(eb, string, r) == Lookup(AddPerson(eb, string, r), PersonId(string, r))

\* an add_household that rejects only more than two parents
AcceptsAtMostTwo(hh) == Len(hh.parents) <= ParentsPerHousehold

\* whether add_household(h) registers h (line 159)
Accepts(hh) == Len(hh.parents) = ParentsPerHousehold

\* the loop of lines 166-168 without the test of line 167
RECURSIVE LinkParentsAlways(_, _, _)
LinkParentsAlways(eb, ref, parents) ==
    IF parents = <<>> THEN eb
    ELSE LinkParentsAlways([eb EXCEPT ![parents[1]].households = Append(@, ref)],
                           ref, Tail(parents))

\* p.households after the loop of lines 166-168 has visited h.parents[1..n]
RECURSIVE LinkParents(_, _, _)
LinkParents(eb, ref, parents) ==
    IF parents = <<>> THEN eb
    ELSE LET p == parents[1]
         IN  LinkParents(
                 IF \E i \in 1..Len(eb[p].households) : eb[p].households[i] = ref
                 THEN eb
                 ELSE [eb EXCEPT ![p].households = Append(@, ref)],
                 ref, Tail(parents))

\* add_household(heap[ref]): <<everybody, heap, households, what it prints>>
AddHousehold(eb, hp, hs, ref) ==
    IF ~Accepts(hp[ref]) THEN <<eb, hp, hs, <<Line("error", <<>>, 0, 0, ref)>> >>
    ELSE <<LinkParents(eb, ref, hp[ref].parents),
           [hp EXCEPT ![ref].id = Len(hs)],
           Append(hs, ref),
           <<>> >>

----------------------------------------------------------------------------
(* Family.find_person, Family.find_first_ancestor                          *)

\* find_person(name): 0 for None
FindPerson(name) ==
    IF HasKey(everybody, PyStr(name)) THEN Lookup(everybody, PyStr(name))
    ELSE IF \E i \in 1..Len(everybody) : everybody[i].name = name
         THEN CHOOSE i \in 1..Len(everybody) :
                 /\ everybody[i].name = name
                 /\ \A j \in 1..(i - 1) : everybody[j].name # name
         ELSE 0

\* len(p.parents): p.parents is its own empty list or the list h.parents of
\* the Household object the person was read into as a child (line 204)
NumParents(p) ==
    IF everybody[p].parents = 0 THEN 0 ELSE Len(heap[everybody[p].parents].parents)

\* find_first_ancestor(): 0 for None (the function falls off its end)
FindFirstAncestor ==
    IF \E i \in 1..Len(everybody) : NumParents(i) = 0
    THEN CHOOSE i \in 1..Len(everybody) :
            /\ NumParents(i) = 0
            /\ \A j \in 1..(i - 1) : NumParents(j) # 0
    ELSE 0

----------------------------------------------------------------------------
(* Family.next_generation                                                  *)

\* the loop of lines 235-236 over the households hs of one person
RECURSIVE KidsOfHouseholds(_)
KidsOfHouseholds(hs) ==
    IF hs = <<>> THEN <<>>
    ELSE heap[hs[1]].kids \o KidsOfHouseholds(Tail(hs))

\* a next_generation that assigns h.kids to next_gen instead of extending it
RECURSIVE NextGenerationLast(_)
NextGenerationLast(g) ==
    IF g = <<>> THEN <<>>
    ELSE LET rest == NextGenerationLast(Tail(g))
             hs == everybody[g[1]].households
         IN  IF rest # <<>> \/ hs = <<>> THEN rest ELSE heap[hs[Len(hs)]].kids

\* next_generation(g)
RECURSIVE NextGeneration(_)
NextGeneration(g) ==
    IF g = <<>> THEN <<>>
    ELSE (IF ~everybody[g[1]].follow_kids THEN <<>>
          ELSE KidsOfHouseholds(everybody[g[1]].households))
         \o NextGeneration(Tail(g))

----------------------------------------------------------------------------
(* The names of the nodes, Person.graphviz, Family.get_spouse              *)

\* 'h%d' % h.id
JunctionName(id) == <<"h">> \o Dec(id)

\* 'h%d_%d' % (h.id, i)
SlotName(id, i) == <<"h">> \o Dec(id) \o <<"_">> \o Dec(i)

\* Family.get_spouse(household, person); a Person is always true
GetSpouse(ref, p) ==
    IF heap[ref].parents[1] = p THEN heap[ref].parents[2] ELSE heap[ref].parents[1]

\* Person.graphviz: the node id and the fill colour (the label is not modelled)
Graphviz(p) ==
    Line("node",
         <<Str(everybody[p].id),
           IF DictHas(everybody[p].attr, <<"F">>) THEN <<"b", "i", "s", "q", "u", "e">>
           ELSE IF DictHas(everybody[p].attr, <<"M">>) THEN <<"a", "z", "u", "r", "e", "2">>
           ELSE <<"w", "h", "i", "t", "e">> >>,
         0, p, 0)

----------------------------------------------------------------------------
(* Family.display_generation                                               *)

\* the half rounded up
LeftCountCeil(l) == (l + 1) \div 2

\* int(l/2) (lines 275, 282)
LeftCount(l) == l \div 2

\* lines 275-279: the households of person p drawn on the left
LeftOf(p, n, w) ==
    LET hs == everybody[p].households
    IN  [j \in 1..(2 * LeftCount(Len(hs))) |->
            LET ref == hs[(j + 1) \div 2]
            IN  IF j % 2 = 1
                THEN Line("spouse_left",
                          <<Str(everybody[GetSpouse(ref, p)].id),
                            JunctionName(heap[ref].id),
                            Str(everybody[p].id)>>, n, w, ref)
                ELSE Line("junction", <<JunctionName(heap[ref].id)>>, n, w, ref)]

\* lines 282-286: the households of person p drawn on the right
RightOf(p, n, w) ==
    LET hs == everybody[p].households
        first == LeftCount(Len(hs))
    IN  [j \in 1..(2 * (Len(hs) - first)) |->
            LET ref == hs[first + (j + 1) \div 2]
            IN  IF j % 2 = 1
                THEN Line("spouse_right",
                          <<Str(everybody[p].id),
                            JunctionName(heap[ref].id),
                            Str(everybody[GetSpouse(ref, p)].id)>>, n, w, ref)
                ELSE Line("junction", <<JunctionName(heap[ref].id)>>, n, w, ref)]

\* the condition of line 269 off by one
TooManySpousesOffByOne(l) == l > MaxSpouses + 1

\* the condition of line 269
TooManySpouses(l) == l > MaxSpouses

\* lines 255-288: the loop over the persons g[w..] of generation number n;
\* prev is the local prev, lines what the call has printed so far
RECURSIVE ShowPersons(_, _, _, _, _)
ShowPersons(g, n, w, prev, lines) ==
    IF w > Len(g) THEN [lines |-> Append(lines, Line("rankclose", <<>>, n, 0, 0)), exc |-> ""]
    ELSE IF g[w] = 0 THEN [lines |-> lines, exc |-> "AttributeError"]
    ELSE
      LET p == g[w]
          hs == everybody[p].households
          l == Len(hs)
          chained ==
            IF Truthy(prev)
            THEN Append(lines,
                   Line("invis",
                        <<Str(prev),
                          Str(IF l <= 1 THEN everybody[p].id
                              ELSE everybody[GetSpouse(hs[1], p)].id)>>, n, w, 0))
            ELSE lines
      IN  IF l = 0 THEN ShowPersons(g, n, w + 1, everybody[p].id, chained)
          ELSE IF TooManySpouses(l) THEN [lines |-> chained, exc |-> "MoreThan2Spouses"]
          ELSE ShowPersons(g, n, w + 1, everybody[GetSpouse(hs[l], p)].id,
                           chained \o LeftOf(p, n, w) \o RightOf(p, n, w))

\* the pairs (p, h) of "for p in gen: for h in p.households" (lines 293-294, 309-310)
RECURSIVE Visits(_, _)
Visits(g, w) ==
    IF w > Len(g) THEN <<>>
    ELSE [j \in 1..Len(everybody[g[w]].households) |->
             [w |-> w, ref |-> everybody[g[w]].households[j]]]
         \o Visits(g, w + 1)

\* a row that always has the spare slot
RowLengthPadded(c) == c + 1

\* the number of slots of the row below a household with c kids (lines 299-302)
RowLength(c) == IF c % 2 = 0 THEN c + 1 ELSE c

\* lines 295-306 for the visits vs[i..]
RECURSIVE ShowRows(_, _, _, _, _)
ShowRows(vs, n, i, prev, lines) ==
    IF i > Len(vs) THEN Append(lines, Line("rankclose", <<>>, n, 0, 0))
    ELSE
      LET ref == vs[i].ref
          id == heap[ref].id
          c == Len(heap[ref].kids)
          l == RowLength(c)
          chained ==
            IF Truthy(prev)
            THEN Append(lines, Line("invis", <<Str(prev), SlotName(id, 0)>>, n, vs[i].w, ref))
            ELSE lines
      IN  IF c = 0 THEN ShowRows(vs, n, i + 1, prev, lines)
          ELSE ShowRows(vs, n, i + 1, PyStr(SlotName(id, l - 1)),
                 Append(chained,
                        Line("row", [x \in 1..l |-> SlotName(id, x - 1)], n, vs[i].w, ref))
                 \o [x \in 1..l |-> Line("slot", <<SlotName(id, x - 1)>>, n, vs[i].w, ref)])

\* int(len(h.kids)/2), the slot of the household's edge (line 313)
CenterSlot(c) == c \div 2

\* the test of line 319 with an integer division
SkipsCenterFloor(i, c) == i = c \div 2

\* the test of line 319: i == len(h.kids)/2, a comparison with a float
SkipsCenter(i, c) == 2 * i = c

\* lines 314-320: the edges to the kids[j..] of household ref, i the local i
RECURSIVE KidEdges(_, _, _, _, _)
KidEdges(ref, n, w, j, i) ==
    IF j > Len(heap[ref].kids) THEN <<>>
    ELSE <<Line("kid", <<SlotName(heap[ref].id, i), Str(everybody[heap[ref].kids[j]].id)>>,
                n, w, ref)>>
         \o KidEdges(ref, n, w, j + 1,
                     IF SkipsCenter(i + 1, Len(heap[ref].kids)) THEN i + 2 ELSE i + 1)

\* lines 309-320 for the visits vs[i..]
RECURSIVE ShowFans(_, _, _)
ShowFans(vs, n, i) ==
    IF i > Len(vs) THEN <<>>
    ELSE
      LET ref == vs[i].ref
          c == Len(heap[ref].kids)
      IN  (IF c > 0
           THEN <<Line("down", <<JunctionName(heap[ref].id),
                                 SlotName(heap[ref].id, CenterSlot(c))>>, n, vs[i].w, ref)>>
                \o KidEdges(ref, n, vs[i].w, 1, 0)
           ELSE <<>>)
          \o ShowFans(vs, n, i + 1)

\* display_generation(g), the n-th call: what it prints and how it ends
DisplayGeneration(g, n) ==
    LET persons == ShowPersons(g, n, 1, PyNone, <<Line("rankopen", <<>>, n, 0, 0)>>)
    IN  IF persons.exc # "" THEN persons
        ELSE [lines |-> persons.lines
                        \o ShowRows(Visits(g, 1), n, 1, PyNone,
                                    <<Line("rankopen", <<>>, n, 0, 0)>>)
                        \o ShowFans(Visits(g, 1), n, 1),
              exc |-> ""]

----------------------------------------------------------------------------
(* The input.                                                              *)

L_blank == <<>>
L_comment == <<"#", "x">>
L_A == <<"A">>
L_B == <<"B">>
L_kidC == <<"\t", "C">>
L_kidA == <<"\t", "A">>
L_kidB == <<"\t", "B">>
\* A(k=1)
L_A_k1 == <<"A", "(", "k", "=", "1", ")">>
\* A (k=2, F)
L_A_k2F == <<"A", " ", "(", "k", "=", "2", ",", " ", "F", ")">>
\* X(id=A)
L_X_idA == <<"X", "(", "i", "d", "=", "A", ")">>
\* A(unique)
L_A_unique == <<"A", "(", "u", "n", "i", "q", "u", "e", ")">>
\* A(k=1=2): the unpacking of line 62 fails
L_bad == <<"A", "(", "k", "=", "1", "=", "2", ")">>

\* records of one person with attributes, ids, comments and a malformed record
RecordLines == {L_comment, L_A, L_kidA, L_A_k1, L_A_k2F, L_X_idA, L_A_unique,
                L_bad}
\* unions of two persons and their children, one of them a parent too
FamilyLines == {L_A, L_B, L_kidC, L_kidB, L_blank}
\* many unions of one person
SpouseLines == {L_A, L_B, L_blank}
\* many children
KidsLines == {L_A, L_kidC}

Scenarios == {[lines |-> RecordLines, max |-> MaxLines],
              [lines |-> FamilyLines, max |-> MaxFamilyLines],
              [lines |-> SpouseLines, max |-> MaxSpouseLines],
              [lines |-> KidsLines, max |-> MaxKidsLines]}

\* the values of the -a option main() is run with (None: option omitted)
AncestorArgs == {PyNone, PyStr(<<"B">>)}

----------------------------------------------------------------------------
(* Family.populate                                                         *)

Init ==
    /\ pc = "populate"
    /\ exc = ""
    /\ \E sc \in Scenarios : alphabet = sc.lines /\ limit = sc.max
    /\ consumed = <<>>
    /\ added = <<>>
    /\ everybody = <<>>
    /\ heap = <<NewHousehold>>
    /\ households = <<>>
    /\ h = 1
    /\ ancestor = 0
    /\ gen = <<>>
    /\ gens = <<>>
    /\ out = <<>>

\* f.readline() returns line (line 189); the file has at most `limit` lines
Reads(line) ==
    /\ pc = "populate"
    /\ Len(consumed) < limit
    /\ line \in alphabet
    /\ consumed' = Append(consumed, line)

\* lines 191-192, 196-197: if not h.isempty(): self.add_household(h)
Finalize ==
    IF IsEmpty(heap[h]) THEN <<everybody, heap, households, <<>> >>
    ELSE AddHousehold(everybody, heap, households, h)

\* lines 195-198
BlankLine ==
    \E line \in alphabet :
        /\ Reads(line)
        /\ RStrip(line) = <<>>
        /\ everybody' = Finalize[1]
        /\ heap' = Append(Finalize[2], NewHousehold)
        /\ households' = Finalize[3]
        /\ out' = out \o Finalize[4]
        /\ h' = Len(heap) + 1
        /\ UNCHANGED <<pc, exc, alphabet, limit, added, ancestor, gen, gens>>

\* lines 199-200
CommentLine ==
    \E line \in alphabet :
        /\ Reads(line)
        /\ RStrip(line) # <<>>
        /\ RStrip(line)[1] = "#"
        /\ UNCHANGED <<pc, exc, alphabet, limit, added, everybody, heap, households,
                       h, ancestor, gen, gens, out>>

IsRecord(line) == RStrip(line) # <<>> /\ RStrip(line)[1] # "#"

IsChild(line) == RStrip(line)[1] = "\t"

\* the record of one call of add_person
Call(string, r, ret) ==
    [id |-> PersonId(string, r), attr |-> PersonAttr(string), ret |-> ret]

\* the string handed to add_person (lines 203, 207)
RecordOf(line) == IF IsChild(line) THEN Tail(RStrip(line)) ELSE RStrip(line)

\* lines 202-205
ChildLine ==
    \E line \in alphabet :
      \E r \in RandomValues :
        /\ Reads(line)
        /\ IsRecord(line) /\ IsChild(line)
        /\ ParseOK(RecordOf(line))
        /\ DrawsRandom(RecordOf(line)) \/ r = RandLo
        /\ LET p == AddedPerson(everybody, RecordOf(line), r)
           IN  /\ everybody' = [AddPerson(everybody, RecordOf(line), r)
                                    EXCEPT ![p].parents = h]
               /\ added' = Append(added, Call(RecordOf(line), r, p))
               /\ heap' = [heap EXCEPT ![h].kids = Append(@, p)]
        /\ UNCHANGED <<pc, exc, alphabet, limit, households, h, ancestor,
                       gen, gens, out>>

\* lines 206-208
ParentLine ==
    \E line \in alphabet :
      \E r \in RandomValues :
        /\ Reads(line)
        /\ IsRecord(line) /\ ~IsChild(line)
        /\ ParseOK(RecordOf(line))
        /\ DrawsRandom(RecordOf(line)) \/ r = RandLo
        /\ LET p == AddedPerson(everybody, RecordOf(line), r)
           IN  /\ everybody' = AddPerson(everybody, RecordOf(line), r)
               /\ added' = Append(added, Call(RecordOf(line), r, p))
               /\ heap' = [heap EXCEPT ![h].parents = Append(@, p)]
        /\ UNCHANGED <<pc, exc, alphabet, limit, households, h, ancestor,
                       gen, gens, out>>

\* Person.__init__ raises ValueError (lines 57, 62): the run ends
BadRecord ==
    \E line \in alphabet :
        /\ Reads(line)
        /\ IsRecord(line)
        /\ ~ParseOK(RecordOf(line))
        /\ pc' = "raised"
        /\ exc' = "ValueError"
        /\ UNCHANGED <<alphabet, limit, added, everybody, heap, households, h,
                       ancestor, gen, gens, out>>

\* lines 190-193: readline() returns '' at the end of the file
EndOfInput ==
    /\ pc = "populate"
    /\ everybody' = Finalize[1]
    /\ heap' = Finalize[2]
    /\ households' = Finalize[3]
    /\ out' = out \o Finalize[4]
    /\ pc' = "main"
    /\ UNCHANGED <<exc, alphabet, limit, consumed, added, h, ancestor, gen, gens>>

----------------------------------------------------------------------------
(* main, Family.output_descending_tree                                     *)

\* lines 330-336: the header, the node of every person, an empty line.
\* graphviz() raises TypeError on a person whose id is True (line 101).
RECURSIVE Declarations(_, _)
Declarations(i, lines) ==
    IF i > Len(everybody) THEN [lines |-> Append(lines, Line("blank", <<>>, 0, 0, 0)), exc |-> ""]
    ELSE IF everybody[i].id.t # "str" THEN [lines |-> lines, exc |-> "TypeError"]
    ELSE Declarations(i + 1, Append(lines, Graphviz(i)))

\* lines 367-375 and 328-336: the ancestor is chosen, output_descending_tree
\* prints the header and the nodes and reaches its loop
Main ==
    \E arg \in AncestorArgs :
        /\ pc = "main"
        /\ LET anc == IF Truthy(arg) THEN FindPerson(arg.s) ELSE FindFirstAncestor
               decl == Declarations(1, <<Line("header", <<>>, 0, 0, 0)>>)
           IN  IF Truthy(arg) /\ anc = 0
               THEN /\ pc' = "raised"
                    /\ exc' = "CannotFindPerson"
                    /\ UNCHANGED <<ancestor, gen, out>>
               ELSE /\ ancestor' = anc
                    /\ gen' = <<anc>>
                    /\ out' = out \o decl.lines
                    /\ exc' = decl.exc
                    /\ pc' = IF decl.exc = "" THEN "walk" ELSE "raised"
        /\ UNCHANGED <<alphabet, limit, consumed, added, everybody, heap, households, h, gens>>

\* a loop that stops at a generation of one person
LoopContinuesMany(g) == Len(g) > 1

\* "while gen:" (line 338)
LoopContinues(g) == g # <<>>

\* a registry of n persons in which nobody is their own descendant has no
\* more than n non-empty generations: longer walks are not followed
WithinCutoff == Len(gens) <= Len(everybody)

\* lines 339-340: one turn of the loop
Walk ==
    /\ pc = "walk"
    /\ LoopContinues(gen)
    /\ WithinCutoff
    /\ LET d == DisplayGeneration(gen, Len(gens) + 1)
       IN  /\ out' = out \o d.lines
           /\ gens' = Append(gens, gen)
           /\ exc' = d.exc
           /\ IF d.exc = ""
              THEN pc' = "walk" /\ gen' = NextGeneration(gen)
              ELSE pc' = "raised" /\ gen' = gen
    /\ UNCHANGED <<alphabet, limit, consumed, added, everybody, heap, households, h, ancestor>>

\* line 342: the loop has ended
Finish ==
    /\ pc = "walk"
    /\ ~LoopContinues(gen)
    /\ out' = Append(out, Line("close", <<>>, 0, 0, 0))
    /\ pc' = "done"
    /\ UNCHANGED <<exc, alphabet, limit, consumed, added, everybody, heap, households, h,
                   ancestor, gen, gens>>

Next ==
    \/ BlankLine \/ CommentLine \/ ChildLine \/ ParentLine \/ BadRecord
    \/ EndOfInput \/ Main \/ Walk \/ Finish

Spec == Init /\ [][Next]_vars


----------------------------------------------------------------------------
(* What the input is, read off the lines consumed.                         *)

LineKind(line) ==
    IF RStrip(line) = <<>> THEN "blank"
    ELSE IF RStrip(line)[1] = "#" THEN "comment"
    ELSE IF RStrip(line)[1] = "\t" THEN "child"
    ELSE "parent"

\* populate has seen the end of the input
SawEnd == pc \in {"main", "walk", "done"} \/ (pc = "raised" /\ exc # "ValueError")

\* the places where a block of lines ends: each blank line, and the end of input
BlockEnds ==
    {i \in 1..Len(consumed) : LineKind(consumed[i]) = "blank"}
    \cup (IF SawEnd THEN {Len(consumed) + 1} ELSE {})

\* the lines of the block that ends at e
BlockOf(e) ==
    {i \in 1..(e - 1) :
        /\ LineKind(consumed[i]) \in {"parent", "child"}
        /\ \A j \in i..(e - 1) : LineKind(consumed[j]) # "blank"}

ParentLinesOf(e) == {i \in BlockOf(e) : LineKind(consumed[i]) = "parent"}

GoodBlocks == {e \in BlockEnds : Cardinality(ParentLinesOf(e)) = 2}

BadBlocks == {e \in BlockEnds : BlockOf(e) # {} /\ Cardinality(ParentLinesOf(e)) # 2}

Registered == {households[i] : i \in 1..Len(households)}

----------------------------------------------------------------------------
(* C1: after any sequence of input lines every household of the registry   *)
(* has exactly two parents; a block finalized with another number of       *)
(* parents is reported and not registered, and the blocks with two parents *)
(* before and after it are all registered.                                 *)
C1_TwoParents ==
    /\ \A i \in 1..Len(households) : Len(heap[households[i]].parents) = 2
    /\ Len(households) = Cardinality(GoodBlocks)
    /\ Cardinality({i \in 1..Len(out) : out[i].k = "error"}) = Cardinality(BadBlocks)
    /\ \A i \in 1..Len(out) : out[i].k = "error" => out[i].hh \notin Registered

\* a rejected block, then a registered one
C1_Witness ==
    /\ pc = "main"
    /\ \E b \in BadBlocks : \E g \in GoodBlocks : b < g

(* C10: each registered household's id is its index in the list of         *)
(* households; h is in the households of p exactly if h is registered and  *)
(* p is one of its parents, it is there once, and the households of p are  *)
(* in increasing id order.                                                 *)
C10_Membership ==
    /\ \A i \in 1..Len(households) : heap[households[i]].id = i - 1
    /\ \A i, j \in 1..Len(households) : households[i] = households[j] => i = j
    /\ \A p \in 1..Len(everybody) :
        LET hs == everybody[p].households
        IN  /\ \A ref \in 1..Len(heap) :
                  (\E i \in 1..Len(hs) : hs[i] = ref)
                      <=> (/\ ref \in Registered
                           /\ \E x \in 1..Len(heap[ref].parents) : heap[ref].parents[x] = p)
            /\ \A i, j \in 1..Len(hs) : hs[i] = hs[j] => i = j
            /\ \A i, j \in 1..Len(hs) : i < j => heap[hs[i]].id < heap[hs[j]].id

\* a person who is both parents of one household and a parent of another,
\* after a block that was rejected
C10_Witness ==
    /\ BadBlocks # {}
    /\ \E p \in 1..Len(everybody) :
          /\ Len(everybody[p].households) = 2
          /\ heap[everybody[p].households[1]].parents = <<p, p>>

(* C2 as stated: after the input A, <tab>C, B, <tab>C the registry holds   *)
(* no household and C is a kid of no registered household.                 *)
C2_Input == <<L_A, L_kidC, L_B, L_kidC>>

C2_BothRejected ==
    (SawEnd /\ consumed = C2_Input) =>
        /\ households = <<>>
        /\ \A p \in 1..Len(everybody) :
              everybody[p].id = PyStr(<<"C">>) =>
                  /\ everybody[p].households = <<>>
                  /\ \A ref \in Registered :
                        \A x \in 1..Len(heap[ref].kids) : heap[ref].kids[x] # p

(* C2 amended: the four lines are one block, which ends at the end of the  *)
(* input with the two parents A and B and is registered as household 0     *)
(* with the kids C, C; nothing is reported; C's own households are empty.  *)
C2_OneHousehold ==
    (SawEnd /\ consumed = C2_Input) =>
        /\ Len(households) = 1
        /\ Len(everybody) = 3
        /\ LET hh == heap[households[1]]
           IN  /\ hh.id = 0
               /\ [i \in 1..Len(hh.parents) |-> everybody[hh.parents[i]].id]
                      = <<PyStr(<<"A">>), PyStr(<<"B">>)>>
               /\ [i \in 1..Len(hh.kids) |-> everybody[hh.kids[i]].id]
                      = <<PyStr(<<"C">>), PyStr(<<"C">>)>>
        /\ \A i \in 1..Len(out) : out[i].k # "error"
        /\ \A p \in 1..Len(everybody) :
              everybody[p].id = PyStr(<<"C">>) => everybody[p].households = <<>>

C2_Witness == pc = "main" /\ consumed = C2_Input

(* C3: the registry holds one Person per id; add_person returns the Person *)
(* registered under the id of its record; for every attribute key the      *)
(* stored value is that of the last record of that id which has the key,   *)
(* and a key is stored exactly if some record of that id has it.           *)
CallsOf(id) == {c \in 1..Len(added) : added[c].id = id}

CallsWithKey(id, k) == {c \in CallsOf(id) : DictHas(added[c].attr, k)}

LastCall(S) == CHOOSE c \in S : \A d \in S : d <= c

C3_MergeById ==
    /\ \A p, q \in 1..Len(everybody) : everybody[p].id = everybody[q].id => p = q
    /\ {everybody[p].id : p \in 1..Len(everybody)} = {added[c].id : c \in 1..Len(added)}
    /\ \A c \in 1..Len(added) :
          added[c].ret \in 1..Len(everybody) /\ everybody[added[c].ret].id = added[c].id
    /\ \A p \in 1..Len(everybody) :
        LET attr == everybody[p].attr
            id == everybody[p].id
        IN  /\ \A i, j \in 1..Len(attr) : attr[i].k = attr[j].k => i = j
            /\ DictKeys(attr) = UNION {DictKeys(added[c].attr) : c \in CallsOf(id)}
            /\ \A k \in DictKeys(attr) :
                  DictGet(attr, k) = DictGet(added[LastCall(CallsWithKey(id, k))].attr, k)

\* a person whose k was overwritten by a later record and whose F was kept
C3_Witness ==
    \E p \in 1..Len(everybody) :
        /\ Cardinality(CallsOf(everybody[p].id)) = 3
        /\ DictHas(everybody[p].attr, <<"F">>)
        /\ DictHas(everybody[p].attr, <<"k">>)
        /\ DictGet(everybody[p].attr, <<"k">>) = PyStr(<<"1">>)
        /\ \E c \in CallsOf(everybody[p].id) :
              /\ DictHas(added[c].attr, <<"k">>)
              /\ DictGet(added[c].attr, <<"k">>) = PyStr(<<"2">>)
              /\ ~DictHas(added[Len(added)].attr, <<"F">>)

----------------------------------------------------------------------------
(* What was printed for what.                                              *)

\* display_generation returned from its k-th call
Completed(k) ==
    /\ k \in 1..Len(gens)
    /\ k < Len(gens) \/ exc \notin {"MoreThan2Spouses", "AttributeError"}

\* the households of the person at place w of the k-th generation displayed
HouseholdsAt(k, w) == everybody[gens[k][w]].households

\* the lines of kind kind printed for household ref of the person at place w
\* of the k-th generation, in the order printed
Printed(kind, k, w, ref) ==
    SelectSeq(out, LAMBDA x : x.k = kind /\ x.g = k /\ x.w = w /\ x.hh = ref)

\* the same for all the households of that person
PrintedFor(kind, k, w) ==
    SelectSeq(out, LAMBDA x : x.k = kind /\ x.g = k /\ x.w = w)

\* the row of slots below a household of c kids, as the claims state it
SlotsFor(c) == IF c % 2 = 1 THEN c ELSE c + 1

\* the fan of household ref of c kids: one row of SlotsFor(c) slots, one node
\* per slot, one edge from the junction to the slot floor(c/2) of the row
HasFan(k, w, ref, c) ==
    LET rows == Printed("row", k, w, ref)
        slots == Printed("slot", k, w, ref)
        downs == Printed("down", k, w, ref)
        id == heap[ref].id
    IN  /\ Len(rows) = 1
        /\ rows[1].ns = [x \in 1..SlotsFor(c) |-> SlotName(id, x - 1)]
        /\ [x \in 1..Len(slots) |-> slots[x].ns] = [x \in 1..SlotsFor(c) |-> <<rows[1].ns[x]>>]
        /\ Len(downs) = 1
        /\ downs[1].ns = <<JunctionName(id), SlotName(id, c \div 2)>>
        /\ \E x \in 1..Len(rows[1].ns) : rows[1].ns[x] = downs[1].ns[2]

HasNoFan(k, w, ref) ==
    /\ Printed("row", k, w, ref) = <<>>
    /\ Printed("slot", k, w, ref) = <<>>
    /\ Printed("down", k, w, ref) = <<>>
    /\ Printed("kid", k, w, ref) = <<>>

(* C5 as stated: every household displayed, with 0 to 6 kids, has a row of *)
(* one slot per kid plus one when the number of kids is even, and one edge *)
(* from its junction, to the slot floor(childCount/2) of that row.         *)
C5_FanForAnyCount ==
    \A k \in 1..Len(gens) : Completed(k) =>
        \A w \in 1..Len(gens[k]) :
            \A i \in 1..Len(HouseholdsAt(k, w)) :
                LET ref == HouseholdsAt(k, w)[i]
                    c == Len(heap[ref].kids)
                IN  c \in 0..6 => HasFan(k, w, ref, c)

(* C5 amended: that holds of every household displayed with at least one   *)
(* kid; for a household without kids no row, no slot and no edge from the  *)
(* junction is printed.                                                    *)
C5_FanForKids ==
    \A k \in 1..Len(gens) : Completed(k) =>
        \A w \in 1..Len(gens[k]) :
            \A i \in 1..Len(HouseholdsAt(k, w)) :
                LET ref == HouseholdsAt(k, w)[i]
                    c == Len(heap[ref].kids)
                IN  IF c = 0 THEN HasNoFan(k, w, ref) ELSE HasFan(k, w, ref, c)

\* a household of 6 kids has been displayed
C5_Witness ==
    /\ pc = "done"
    /\ \E k \in 1..Len(gens) : \E w \in 1..Len(gens[k]) :
          \E i \in 1..Len(HouseholdsAt(k, w)) :
              Len(heap[HouseholdsAt(k, w)[i]].kids) = 6

\* the place in the row of the slot a kid edge starts from (0 if none)
SlotIndex(row, name) ==
    IF \E x \in 1..Len(row) : row[x] = name
    THEN CHOOSE x \in 1..Len(row) : row[x] = name
    ELSE 0

\* each kid has its edge, from slots of the row, in increasing order
KidsOnSlots(k, w, ref) ==
    LET row == Printed("row", k, w, ref)[1].ns
        edges == Printed("kid", k, w, ref)
        kids == heap[ref].kids
    IN  /\ Len(edges) = Len(kids)
        /\ \A j \in 1..Len(kids) :
              /\ edges[j].ns[2] = Str(everybody[kids[j]].id)
              /\ SlotIndex(row, edges[j].ns[1]) \in 1..Len(row)
        /\ \A i, j \in 1..Len(kids) :
              i < j => SlotIndex(row, edges[i].ns[1]) < SlotIndex(row, edges[j].ns[1])

\* the kids (by place) whose edge starts from the slot floor(c/2)
KidsOnCenter(k, w, ref) ==
    LET edges == Printed("kid", k, w, ref)
        c == Len(heap[ref].kids)
    IN  {j \in 1..Len(edges) : edges[j].ns[1] = SlotName(heap[ref].id, c \div 2)}

(* C6 as stated: each kid of a household displayed has one edge from a     *)
(* slot of the row, the slots are distinct and increase in kid order, and  *)
(* no kid is on the slot floor(childCount/2), for even and odd counts.     *)
C6_CenterAlwaysFree ==
    \A k \in 1..Len(gens) : Completed(k) =>
        \A w \in 1..Len(gens[k]) :
            \A i \in 1..Len(HouseholdsAt(k, w)) :
                LET ref == HouseholdsAt(k, w)[i]
                IN  Len(heap[ref].kids) > 0 =>
                        KidsOnSlots(k, w, ref) /\ KidsOnCenter(k, w, ref) = {}

(* C6 amended: the same, but no kid is on the slot floor(childCount/2)     *)
(* only when the number of kids is even; when it is odd the row has no     *)
(* spare slot and the middle kid, the one at place floor(childCount/2)     *)
(* counting from 0, is on that slot.                                       *)
C6_CenterFreeWhenEven ==
    \A k \in 1..Len(gens) : Completed(k) =>
        \A w \in 1..Len(gens[k]) :
            \A i \in 1..Len(HouseholdsAt(k, w)) :
                LET ref == HouseholdsAt(k, w)[i]
                    c == Len(heap[ref].kids)
                IN  c > 0 =>
                        /\ KidsOnSlots(k, w, ref)
                        /\ KidsOnCenter(k, w, ref) =
                               IF c % 2 = 0 THEN {} ELSE {c \div 2 + 1}

\* a household of 4 kids has been displayed
C6_Witness ==
    /\ pc = "done"
    /\ \E k \in 1..Len(gens) : \E w \in 1..Len(gens[k]) :
          \E i \in 1..Len(HouseholdsAt(k, w)) :
              /\ Len(heap[HouseholdsAt(k, w)[i]].kids) = 4
              /\ Len(Printed("kid", k, w, HouseholdsAt(k, w)[i])) = 4

\* q is the other parent of household ref, p being one
SpouseIs(ref, p, q) == heap[ref].parents = <<p, q>> \/ heap[ref].parents = <<q, p>>

(* C8: for a person displayed with n = 1 or 2 households the spouses of    *)
(* the first floor(n/2) households are printed on the left (spouse ->      *)
(* junction -> person) and the others on the right (person -> junction ->  *)
(* spouse); each household has its own junction, named after its id.       *)
C8_LeftRight ==
    \A k \in 1..Len(gens) : Completed(k) =>
        \A w \in 1..Len(gens[k]) :
            LET p == gens[k][w]
                hs == HouseholdsAt(k, w)
                n == Len(hs)
                lefts == PrintedFor("spouse_left", k, w)
                rights == PrintedFor("spouse_right", k, w)
                junctions == PrintedFor("junction", k, w)
            IN  n \in {1, 2} =>
                  /\ Len(lefts) = n \div 2
                  /\ Len(rights) = n - n \div 2
                  /\ \A i \in 1..Len(lefts) :
                        \E q \in 1..Len(everybody) :
                          /\ SpouseIs(hs[i], p, q)
                          /\ lefts[i].ns = <<Str(everybody[q].id),
                                              JunctionName(heap[hs[i]].id),
                                              Str(everybody[p].id)>>
                  /\ \A i \in 1..Len(rights) :
                        \E q \in 1..Len(everybody) :
                          /\ SpouseIs(hs[n \div 2 + i], p, q)
                          /\ rights[i].ns = <<Str(everybody[p].id),
                                               JunctionName(heap[hs[n \div 2 + i]].id),
                                               Str(everybody[q].id)>>
                  /\ [i \in 1..Len(junctions) |-> junctions[i].ns]
                        = [i \in 1..n |-> <<JunctionName(heap[hs[i]].id)>>]
                  /\ \A i, j \in 1..Len(junctions) :
                        junctions[i].ns = junctions[j].ns => i = j

\* a person with two households and a spouse who is somebody else has been
\* displayed
C8_Witness ==
    /\ pc = "done"
    /\ \E w \in 1..Len(gens[1]) :
          /\ Len(HouseholdsAt(1, w)) = 2
          /\ heap[HouseholdsAt(1, w)[1]].parents[2] # gens[1][w]
          /\ heap[HouseholdsAt(1, w)[1]].parents[1] = gens[1][w]

----------------------------------------------------------------------------
(* The fatal error of display_generation.                                  *)

\* a person of the registry has 3 households or more
SomebodyHasThree == \E p \in 1..Len(everybody) : Len(everybody[p].households) >= 3

\* the persons of the k-th generation displayed who have 3 households or more
WithThree(k) ==
    {w \in 1..Len(gens[k]) : gens[k][w] # 0 /\ Len(HouseholdsAt(k, w)) >= 3}

\* the run is over
Ended == pc \in {"done", "raised"}

C4_NotReached == SomebodyHasThree /\ pc = "done"

----------------------------------------------------------------------------
(* The walk.                                                               *)

\* the places <<w, j, x>>: person w of generation g follows its kids, and x
\* is a kid of the j-th household of that person
KidPlaces(g) ==
    {t \in (1..Len(g)) \X (1..Len(heap)) \X (1..(Len(consumed) + 1)) :
        /\ everybody[g[t[1]]].follow_kids
        /\ t[2] <= Len(everybody[g[t[1]]].households)
        /\ t[3] <= Len(heap[everybody[g[t[1]]].households[t[2]]].kids)}

\* place a comes before place b
Before(a, b) ==
    \/ a[1] < b[1]
    \/ a[1] = b[1] /\ a[2] < b[2]
    \/ a[1] = b[1] /\ a[2] = b[2] /\ a[3] < b[3]

\* g2 lists the kids at the places of g, in the order of the places
IsNextOf(g2, g) ==
    /\ Len(g2) = Cardinality(KidPlaces(g))
    /\ \A t \in KidPlaces(g) :
          g2[1 + Cardinality({u \in KidPlaces(g) : Before(u, t)})]
              = heap[everybody[g[t[1]]].households[t[2]]].kids[t[3]]

WalkedFromPerson == ancestor # 0 /\ gens # <<>>

\* the generations displayed, and the one the loop holds, follow one another
C7_Generations ==
    WalkedFromPerson =>
        /\ gens[1] = <<ancestor>>
        /\ \A k \in 1..(Len(gens) - 1) : IsNextOf(gens[k + 1], gens[k])
        /\ pc \in {"walk", "done"} => IsNextOf(gen, gens[Len(gens)])

\* a step of the walk leaves the registry as it is
WalkKeepsRegistry ==
    pc \in {"walk", "done"} => UNCHANGED <<everybody, heap, households>>

KidsOfAll(S) ==
    {heap[ref].kids[x] : <<ref, x>> \in
        {t \in (1..Len(heap)) \X (1..(Len(consumed) + 1)) :
            /\ t[2] <= Len(heap[t[1]].kids)
            /\ \E p \in S : \E i \in 1..Len(everybody[p].households) :
                  everybody[p].households[i] = t[1]}}

\* the persons reached from those of S in n steps or less
RECURSIVE Reached(_, _)
Reached(S, n) == IF n = 0 THEN S ELSE Reached(S \cup KidsOfAll(S), n - 1)

\* nobody is their own descendant
Acyclic ==
    \A p \in 1..Len(everybody) : p \notin Reached(KidsOfAll({p}), Len(everybody))

(* C9 as stated: in a registry where nobody is their own descendant the    *)
(* walk from a person stops only when the generation is empty.             *)
C9_StopsOnlyWhenEmpty ==
    (Acyclic /\ WalkedFromPerson /\ Ended) => gen = <<>>

(* C9 amended: in a registry where nobody is their own descendant the walk *)
(* from a person displays no more generations than there are persons and   *)
(* then ends: either the loop stops, which it does exactly when the        *)
(* generation is empty and at no earlier point, or display_generation      *)
(* raises its fatal error on a person of the current generation with more  *)
(* than 2 households.  Until then a turn of the loop can always be taken.  *)
C9_WalkEnds ==
    (Acyclic /\ ancestor # 0) =>
        /\ Len(gens) <= Len(everybody)
        /\ (pc = "walk" /\ gen # <<>>) => Len(gens) < Len(everybody)
        /\ pc = "walk" => ENABLED Next
        /\ pc = "done" => gen = <<>> /\ \A k \in 1..Len(gens) : gens[k] # <<>>
        /\ (pc = "raised" /\ gens # <<>>) =>
              exc = "MoreThan2Spouses" /\ WithThree(Len(gens)) # {}

\* a walk of two generations or more has stopped in a registry without cycle
C9_Witness ==
    /\ Acyclic
    /\ pc = "done"
    /\ Len(gens) >= 2
    /\ \E p \in 1..Len(everybody) : KidsOfAll({p}) # {}

\* a walk in a registry with a cycle that has gone on for longer than there
\* are persons
C9_CyclicGoesOn == ~Acyclic /\ pc = "walk" /\ gen # <<>> /\ ~WithinCutoff

============================================================================
